---- MODULE Spec2Model ----
(***************************************************************************)
(* A model of deduper's fingerprint index and duplicate-group engine       *)
(* (src/deduper/core.py, class DuplicateFileFinder).                       *)
(*                                                                         *)
(* Text (paths, file contents, hex digests, names) is a string that is     *)
(* taken apart character by character, so that ordering (SQL ORDER BY,     *)
(* Python sorted), path joining, stems, suffixes and lower-casing are      *)
(* computed, not assumed.                                                  *)
(*                                                                         *)
(* Not modelled: the id and scan_time columns (an AUTOINCREMENT counter    *)
(* and a clock; no modelled query reads them), and a failing SQLite        *)
(* connection.  One call of a public method is one step: the design is     *)
(* single-threaded (spec section 5), and other processes change the        *)
(* filesystem only between calls.                                          *)
(***************************************************************************)
EXTENDS Integers, Sequences, FiniteSets, Bags, TLC

VARIABLES
    fs,          \* the filesystem: entry of every file slot
    files,       \* table files: a set of rows
    unreadable,  \* table unreadable_files: a bag of rows (ids abstracted)
    envSteps,    \* number of changes other processes have made so far
    last         \* the most recent call: its arguments and what it returned

vars == <<fs, files, unreadable, envSteps, last>>

----------------------------------------------------------------------------
(* Bounds of the model *)

\* how many times other processes change the filesystem in one behaviour
MaxEnvSteps == 1
\* how many rows table unreadable_files may hold before scans that would
\* add more are no longer taken
MaxUnreadable == 2

----------------------------------------------------------------------------
(* Text *)

\* The characters paths, names and digests are written with, by code point:
\* "." is 46, "/" 47, "0".."9" 48..57, "A".."Z" 65..90, "a".."z" 97..122
Punctuation == "./0123456789"
UpperCase == "ABCDEFGHIJKLMNOPQRSTUVWXYZ"
LowerCase == "abcdefghijklmnopqrstuvwxyz"

CharAt(s, i) == SubSeq(s, i, i)

\* ord(c), as the set of pairs <<c, ord(c)>>
CodePoints ==
    {<<CharAt(Punctuation, i), 45 + i>> : i \in 1..Len(Punctuation)}
    \cup {<<CharAt(UpperCase, i), 64 + i>> : i \in 1..Len(UpperCase)}
    \cup {<<CharAt(LowerCase, i), 96 + i>> : i \in 1..Len(LowerCase)}
ord(c) == (CHOOSE cp \in CodePoints : cp[1] = c)[2]

\* c.lower() for the upper-case letters, as the set of pairs <<c, c.lower()>>
LowerOf == {<<CharAt(UpperCase, i), CharAt(LowerCase, i)>> : i \in 1..Len(UpperCase)}

\* s < t in code-point order (Python str comparison, SQLite BINARY collation)
RECURSIVE LexLess(_, _)
LexLess(s, t) ==
    IF t = "" THEN FALSE
    ELSE IF s = "" THEN TRUE
    ELSE IF Head(s) # Head(t) THEN ord(Head(s)) < ord(Head(t))
    ELSE LexLess(Tail(s), Tail(t))

IsPrefix(p, s) == Len(p) <= Len(s) /\ SubSeq(s, 1, Len(p)) = p

\* index of the last occurrence of character c in s, 0 if none (str.rfind + 1)
RECURSIVE RFind(_, _)
RFind(s, c) ==
    IF s = "" THEN 0
    ELSE IF CharAt(s, Len(s)) = c THEN Len(s)
    ELSE RFind(SubSeq(s, 1, Len(s) - 1), c)

\* PurePath.name: the final component
Name(p) == SubSeq(p, RFind(p, "/") + 1, Len(p))

\* PurePath.parent
Parent(p) == SubSeq(p, 1, RFind(p, "/") - 1)

\* Path(root) / file
Join(dir, name) == dir \o "/" \o name

\* PurePath.suffix: from the last dot of the name, unless the name starts or
\* ends with that dot
Suffix(p) ==
    LET name == Name(p)
        i == RFind(name, ".")
    IN IF 1 < i /\ i < Len(name) THEN SubSeq(name, i, Len(name)) ELSE ""

\* PurePath.stem: the name without its suffix
Stem(p) ==
    LET name == Name(p)
        i == RFind(name, ".")
    IN IF 1 < i /\ i < Len(name) THEN SubSeq(name, 1, i - 1) ELSE name

\* str.lower on ASCII
LowerChar(c) ==
    IF \E lo \in LowerOf : lo[1] = c THEN (CHOOSE lo \in LowerOf : lo[1] = c)[2] ELSE c
RECURSIVE Lower(_)
Lower(s) == IF s = "" THEN "" ELSE LowerChar(Head(s)) \o Lower(Tail(s))

\* The elements of S in ascending order under LexLess
RECURSIVE SortedSeq(_)
SortedSeq(S) ==
    IF S = {} THEN <<>>
    ELSE LET m == CHOOSE x \in S : \A y \in S \ {x} : LexLess(x, y)
         IN <<m>> \o SortedSeq(S \ {m})

Range(s) == {s[i] : i \in 1..Len(s)}

----------------------------------------------------------------------------
(* The filesystem the finder is run on *)

\* /r and /r/s are directories; /l is a symbolic link to /r; /r/k, when
\* present, is a symbolic link
Dirs == {"/r", "/r/s"}
DirLink == "/l"
DirLinkTarget == "/r"
\* the directory /r as spelled from the working directory /
RelativeRoot == "r"
WorkingDirectory == "/"
RegularSlots == {"/r/A.T", "/r/b", "/r/b.t", "/r/s/a"}
LinkSlot == "/r/k"
\* the files other processes touch: the least path of one group of
\* InitialFiles and the greatest path of the other
Touched == {"/r/b", "/r/b.t"}
Slots == RegularSlots \cup {LinkSlot}

\* the directory tree: every path with its directory and its name there
Tree == {[dir |-> Parent(x), name |-> Name(x), path |-> x] : x \in Slots \cup Dirs}

Contents == {"X", "YY"}

Absent == [kind |-> "absent", content |-> "", readable |-> FALSE,
           removable |-> FALSE, target |-> ""]
RegularFile(c) == [kind |-> "file", content |-> c, readable |-> TRUE,
                   removable |-> TRUE, target |-> ""]
SymLink(t) == [kind |-> "link", content |-> "", readable |-> FALSE,
               removable |-> TRUE, target |-> t]

\* the absolute path: a relative path is joined to the working directory,
\* and the directory link /l is replaced by the directory it names
Canonical(p) ==
    IF IsPrefix(DirLink, p)
    THEN DirLinkTarget \o SubSeq(p, Len(DirLink) + 1, Len(p))
    ELSE IF IsPrefix(RelativeRoot, p)
    THEN WorkingDirectory \o p
    ELSE p

\* the entry a path leads to
Entry(f, p) == f[Canonical(p)]

IsLoop(f, p) == Entry(f, p).kind = "link" /\ Entry(f, p).target = Canonical(p)

\* the entry open() and stat() reach: symbolic links are followed
Followed(f, p) ==
    LET e == Entry(f, p)
    IN IF e.kind = "link" /\ ~IsLoop(f, p) THEN f[e.target] ELSE e

\* the path as it is spelled, were it not resolved
AsSpelled(f, p, loopRaises) == [ok |-> TRUE, error |-> "", path |-> p]

\* Path.resolve(): the absolute path with every symbolic link replaced.
\* On a link that names itself, pathlib up to Python 3.12 raises
\* RuntimeError("Symlink loop"); later versions return the path.
resolve(f, p, loopRaises) ==
    LET q == Canonical(p)
        e == f[q]
    IN IF IsLoop(f, p) THEN
            (IF loopRaises THEN [ok |-> FALSE, error |-> "RuntimeError", path |-> ""]
                           ELSE [ok |-> TRUE, error |-> "", path |-> q])
       ELSE IF e.kind = "link" THEN [ok |-> TRUE, error |-> "", path |-> e.target]
       ELSE [ok |-> TRUE, error |-> "", path |-> q]

\* what resolve() may do on this filesystem: raise on a loop, or not
LoopOutcomes(f) ==
    IF \E p \in DOMAIN f : IsLoop(f, p) THEN BOOLEAN ELSE {FALSE}

\* the orders a directory may be listed in (see ListDir).  Without a link
\* no two names lead to the same file, every file is stored or logged once,
\* and the order of the listing changes neither table.
ListingOrders(f) ==
    IF \E p \in DOMAIN f : f[p].kind = "link" THEN BOOLEAN ELSE {FALSE}

\* open(file_path, "rb"): the exception it raises, "" if none
OpenError(f, p) ==
    IF IsLoop(f, p) THEN "OSError"
    ELSE LET e == Followed(f, p)
         IN IF e.kind # "file" THEN "FileNotFoundError"
            ELSE IF ~e.readable THEN "PermissionError"
            ELSE ""

\* os.path.exists(path): symbolic links are followed, an error is False
exists(f, p) ==
    \/ Canonical(p) \in Dirs
    \/ Canonical(p) \in DOMAIN f /\ ~IsLoop(f, p) /\ Followed(f, p).kind = "file"

\* Path.is_file(): a regular file, or a link to one; an error is False
is_file(f, p) ==
    Canonical(p) \in DOMAIN f /\ ~IsLoop(f, p) /\ Followed(f, p).kind = "file"

\* hashlib.sha256(content).hexdigest(), cut to its first two hex digits
sha256(c) ==
    IF c = "X" THEN "4b"          \* 4b68ab38...
    ELSE IF c = "YY" THEN "c1"    \* c1de18d3...
    ELSE "e3"                     \* e3b0c442..., the digest of no bytes

----------------------------------------------------------------------------
(* Hashing and the two tables *)

\* a digest that takes in the file's suffix as well as its bytes
calculate_file_hash_named(f, file_path) ==
    IF OpenError(f, file_path) # ""
    THEN [ok |-> FALSE, error |-> OpenError(f, file_path), hash |-> ""]
    ELSE [ok |-> TRUE, error |-> "",
          hash |-> sha256(Followed(f, file_path).content) \o Suffix(file_path)]

\* calculate_file_hash: open, read in chunks, hexdigest; open's error is
\* not caught here
calculate_file_hash(f, file_path) ==
    IF OpenError(f, file_path) # ""
    THEN [ok |-> FALSE, error |-> OpenError(f, file_path), hash |-> ""]
    ELSE [ok |-> TRUE, error |-> "", hash |-> sha256(Followed(f, file_path).content)]

\* INSERT OR IGNORE: a row whose path is there already is not written
InsertOrIgnore(tbl, row) ==
    IF \E r \in tbl : r.path = row.path THEN tbl ELSE tbl \cup {row}

\* a plain INSERT, were path not UNIQUE
InsertOnly(tbl, row) == tbl \cup {row}

\* INSERT OR REPLACE INTO files: path is UNIQUE, so a row with the same
\* path is deleted before the new row is inserted
InsertOrReplace(tbl, row) == {r \in tbl : r.path # row.path} \cup {row}

\* _store_file, given what calculate_file_hash and resolve() came to:
\* size, stem, lower-cased suffix, upsert; an exception is passed on
StoreRowPruning(f, tbl, file_path, file_hash, abs_path) ==
    IF ~file_hash.ok THEN [ok |-> FALSE, error |-> file_hash.error, files |-> tbl]
    ELSE IF ~abs_path.ok THEN [ok |-> FALSE, error |-> abs_path.error, files |-> tbl]
    ELSE [ok |-> TRUE, error |-> "",
          files |-> InsertOrReplace({r \in tbl : exists(f, r.path)},
              [path |-> abs_path.path,
               filename |-> Stem(file_path),
               extension |-> Lower(Suffix(file_path)),
               hash |-> file_hash.hash,
               size |-> Len(Followed(f, file_path).content)])]

StoreRow(f, tbl, file_path, file_hash, abs_path) ==
    IF ~file_hash.ok THEN [ok |-> FALSE, error |-> file_hash.error, files |-> tbl]
    ELSE IF ~abs_path.ok THEN [ok |-> FALSE, error |-> abs_path.error, files |-> tbl]
    ELSE [ok |-> TRUE, error |-> "",
          files |-> InsertOrReplace(tbl,
              [path |-> abs_path.path,
               filename |-> Stem(file_path),
               extension |-> Lower(Suffix(file_path)),
               hash |-> file_hash.hash,
               size |-> Len(Followed(f, file_path).content)])]

\* _store_file(cursor, file_path)
store_file(f, tbl, file_path, loopRaises) ==
    StoreRow(f, tbl, file_path, calculate_file_hash(f, file_path),
             resolve(f, file_path, loopRaises))

\* _log_unreadable_file, given what resolve() came to: INSERT a row
LogRow(unr, abs_path, error_type) ==
    IF ~abs_path.ok THEN [ok |-> FALSE, error |-> abs_path.error, unreadable |-> unr]
    ELSE [ok |-> TRUE, error |-> "",
          unreadable |-> unr (+) SetToBag({[path |-> abs_path.path,
                                            error_type |-> error_type]})]

\* _log_unreadable_file(cursor, file_path, error_type)
log_unreadable_file(f, unr, file_path, error_type, loopRaises) ==
    LogRow(unr, resolve(f, file_path, loopRaises), error_type)

----------------------------------------------------------------------------
(* scan_directory *)

Reverse(s) == [i \in 1..Len(s) |-> s[Len(s) + 1 - i]]

\* the entries of one directory in the order the operating system lists
\* them, which is not specified: ascending or descending here
ListDir(S, desc) == IF desc THEN Reverse(SortedSeq(S)) ELSE SortedSeq(S)

\* every name of a listing joined to its directory
JoinEach(dir, listed) == [i \in 1..Len(listed) |-> Join(dir, listed[i])]

\* os.walk(top): per directory, top-down, the names that are not
\* directories, joined to the directory as walked
RECURSIVE walk(_, _, _)
RECURSIVE walkEach(_, _, _)
walk(f, top, desc) ==
    LET here == Canonical(top)
        names == {e.name : e \in {x \in Tree : /\ x.dir = here
                                                /\ x.path \in Slots
                                                /\ f[x.path].kind # "absent"}}
        subdirs == {Join(top, d.name) : d \in {x \in Tree : /\ x.dir = here
                                                            /\ x.path \in Dirs}}
    IN JoinEach(top, ListDir(names, desc)) \o walkEach(f, ListDir(subdirs, desc), desc)
walkEach(f, subdirs, desc) ==
    IF subdirs = <<>> THEN <<>>
    ELSE walk(f, Head(subdirs), desc) \o walkEach(f, Tail(subdirs), desc)

\* directory.iterdir(): every child, directories included
iterdir(f, directory, desc) ==
    LET here == Canonical(directory)
        names == {e.name : e \in {x \in Tree : /\ x.dir = here
                                                /\ \/ x.path \in Dirs
                                                   \/ f[x.path].kind # "absent"}}
    IN JoinEach(directory, ListDir(names, desc))

\* the files passed to _store_file, were recursive not looked at
CandidatesWalk(f, directory, recursive, desc) == walk(f, directory, desc)

\* the files scan_directory passes to _store_file, in order
Candidates(f, directory, recursive, desc) ==
    IF recursive THEN walk(f, directory, desc)
    ELSE SelectSeq(iterdir(f, directory, desc), LAMBDA item : is_file(f, item))

\* the exceptions "except (OSError, PermissionError)" catches
IsOSError(error) == error \in {"OSError", "PermissionError", "FileNotFoundError"}

\* the except clause: log the file and go on, unless logging raises
Except(acc, lg) ==
    IF lg.ok THEN [acc EXCEPT !.unreadable = lg.unreadable]
    ELSE [acc EXCEPT !.raised = lg.error]

\* the try clause, were only a file counted that had no record before
TryCountNew(f, acc, file_path, st, loopRaises) ==
    IF st.ok
    THEN [acc EXCEPT !.files = st.files,
                     !.count = IF Cardinality(st.files) > Cardinality(acc.files)
                               THEN acc.count + 1 ELSE acc.count]
    ELSE IF IsOSError(st.error)
    THEN Except(acc, log_unreadable_file(f, acc.unreadable, file_path, st.error,
                                         loopRaises))
    ELSE [acc EXCEPT !.raised = st.error]

\* the try clause: count the file _store_file stored
Try(f, acc, file_path, st, loopRaises) ==
    IF st.ok THEN [acc EXCEPT !.files = st.files, !.count = acc.count + 1]
    ELSE IF IsOSError(st.error)
    THEN Except(acc, log_unreadable_file(f, acc.unreadable, file_path, st.error,
                                         loopRaises))
    ELSE [acc EXCEPT !.raised = st.error]

\* the try/except around _store_file, for one file
ScanOne(f, acc, file_path, loopRaises) ==
    Try(f, acc, file_path, store_file(f, acc.files, file_path, loopRaises), loopRaises)

\* the loop of scan_directory; an exception that escapes ends it
RECURSIVE ScanLoop(_, _, _, _)
ScanLoop(f, order, acc, loopRaises) ==
    IF order = <<>> \/ acc.raised # "" THEN acc
    ELSE ScanLoop(f, Tail(order), ScanOne(f, acc, Head(order), loopRaises), loopRaises)

\* what is recorded of a call: its name and arguments, whether it returned
\* or what it raised, the count or the list it returned; repeat says that a
\* scan follows at once on a scan with the same arguments that returned,
\* or that a deletion follows at once on a deletion with dry_run=False
NoCall == [op |-> "none", directory |-> "", recursive |-> FALSE,
           keep_first |-> FALSE, dry_run |-> FALSE, group |-> "",
           keep_path |-> {}, outcome |-> "", count |-> 0, result |-> <<>>,
           repeat |-> FALSE, keep_index |-> 0]

\* scan_directory(directory, recursive): the loop, then commit.  When an
\* exception escapes nothing is committed and the connection's changes are
\* rolled back.
ScanDirectory(directory, recursive) ==
    \E desc \in ListingOrders(fs), loopRaises \in LoopOutcomes(fs) :
      \E r \in {ScanLoop(fs, Candidates(fs, directory, recursive, desc),
                         [files |-> files, unreadable |-> unreadable,
                          count |-> 0, raised |-> ""], loopRaises)} :
        LET call == [NoCall EXCEPT !.op = "scan", !.directory = directory,
                                   !.recursive = recursive,
                                   !.repeat = /\ last.op = "scan"
                                              /\ last.directory = directory
                                              /\ last.recursive = recursive
                                              /\ last.outcome = "returned"]
        IN /\ BagCardinality(r.unreadable) <= MaxUnreadable
           /\ IF r.raised # ""
              THEN /\ UNCHANGED <<files, unreadable>>
                   /\ last' = [call EXCEPT !.outcome = r.raised]
              ELSE /\ files' = r.files
                   /\ unreadable' = r.unreadable
                   /\ last' = [call EXCEPT !.outcome = "returned", !.count = r.count]
           /\ UNCHANGED <<fs, envSteps>>

----------------------------------------------------------------------------
(* find_duplicates *)

\* the subquery with HAVING COUNT(*) > 0
HavingCountAbove0(tbl) == {r.hash : r \in tbl}

\* the subquery: SELECT hash FROM files GROUP BY hash HAVING COUNT(*) > 1
HavingCountAbove1(tbl) ==
    {h \in {r.hash : r \in tbl} : Cardinality({r \in tbl : r.hash = h}) > 1}

\* ORDER BY path
RowBeforeByPath(a, b) == LexLess(a.path, b.path)

\* ORDER BY hash, path
RowBefore(a, b) ==
    \/ LexLess(a.hash, b.hash)
    \/ a.hash = b.hash /\ LexLess(a.path, b.path)

\* the rows of a set in ORDER BY order (rows that compare equal in any order)
RECURSIVE OrderBy(_)
OrderBy(rows) ==
    IF rows = {} THEN <<>>
    ELSE LET m == CHOOSE x \in rows : \A y \in rows : ~RowBefore(y, x)
         IN <<m>> \o OrderBy(rows \ {m})

\* the query of find_duplicates: cursor.fetchall()
SelectDuplicateRows(tbl) ==
    OrderBy({r \in tbl : r.hash \in HavingCountAbove1(tbl)})

\* the loop that builds the dict; a dict keeps insertion order, so it is a
\* sequence of [hash, paths] entries with distinct hashes
RECURSIVE BuildDict(_, _)
\* if hash_val not in duplicates: duplicates[hash_val] = []
SetDefault(duplicates, hash_val) ==
    IF \E i \in 1..Len(duplicates) : duplicates[i].hash = hash_val
    THEN duplicates
    ELSE Append(duplicates, [hash |-> hash_val, paths |-> <<>>])
\* duplicates[hash_val].append(path)
AppendTo(duplicates, hash_val, path) ==
    [i \in 1..Len(duplicates) |->
        IF duplicates[i].hash = hash_val
        THEN [duplicates[i] EXCEPT !.paths = Append(duplicates[i].paths, path)]
        ELSE duplicates[i]]
BuildDict(rows, duplicates) ==
    IF rows = <<>> THEN duplicates
    ELSE BuildDict(Tail(rows),
                   AppendTo(SetDefault(duplicates, Head(rows).hash),
                            Head(rows).hash, Head(rows).path))

find_duplicates(tbl) == BuildDict(SelectDuplicateRows(tbl), <<>>)

\* list(duplicates.values())
Values(duplicates) == [i \in 1..Len(duplicates) |-> duplicates[i].paths]
get_duplicate_groups(tbl) == Values(find_duplicates(tbl))

----------------------------------------------------------------------------
(* delete_duplicates *)

\* sorted(file_list)
RECURSIVE sorted(_)
Insert(s, x) ==
    LET k == Cardinality({i \in 1..Len(s) : ~LexLess(x, s[i])})
    IN SubSeq(s, 1, k) \o <<x>> \o SubSeq(s, k + 1, Len(s))
sorted(file_list) ==
    IF file_list = <<>> THEN <<>>
    ELSE Insert(sorted(SubSeq(file_list, 1, Len(file_list) - 1)),
                file_list[Len(file_list)])

\* the two slices, exchanged
SliceExchanged(sorted_files, keep_first) ==
    IF keep_first THEN SubSeq(sorted_files, 1, Len(sorted_files) - 1)
    ELSE Tail(sorted_files)

\* sorted_files[1:] or sorted_files[:-1]
Slice(sorted_files, keep_first) ==
    IF keep_first THEN Tail(sorted_files)
    ELSE SubSeq(sorted_files, 1, Len(sorted_files) - 1)
FilesToDelete(file_list, keep_first) == Slice(sorted(file_list), keep_first)

\* os.remove(path): the entry goes, or OSError is raised
CanRemove(f, p) == f[Canonical(p)].kind # "absent" /\ f[Canonical(p)].removable
Removed(f, p) == [f EXCEPT ![Canonical(p)] = Absent]

\* DELETE FROM files WHERE path = ?
DeleteNoRow(tbl, p) == tbl

DeleteRow(tbl, p) == {r \in tbl : r.path # p}

\* the body of the loop, were dry_run not looked at
DeleteOneForReal(acc, file_path, dry_run) ==
    IF exists(acc.fs, file_path) /\ CanRemove(acc.fs, file_path)
    THEN [fs |-> Removed(acc.fs, file_path),
          files |-> DeleteRow(acc.files, file_path),
          deleted |-> Append(acc.deleted, file_path)]
    ELSE acc

\* the body of the loop, were the path listed whether or not it was removed
DeleteOneAssumed(acc, file_path, dry_run) ==
    IF dry_run THEN [acc EXCEPT !.deleted = Append(acc.deleted, file_path)]
    ELSE [fs |-> IF exists(acc.fs, file_path) /\ CanRemove(acc.fs, file_path)
                 THEN Removed(acc.fs, file_path) ELSE acc.fs,
          files |-> DeleteRow(acc.files, file_path),
          deleted |-> Append(acc.deleted, file_path)]

\* the body of the loop over files_to_delete, for one path
DeleteOne(acc, file_path, dry_run) ==
    IF dry_run THEN [acc EXCEPT !.deleted = Append(acc.deleted, file_path)]
    ELSE IF exists(acc.fs, file_path) /\ CanRemove(acc.fs, file_path)
    THEN [fs |-> Removed(acc.fs, file_path),
          files |-> DeleteRow(acc.files, file_path),
          deleted |-> Append(acc.deleted, file_path)]
    ELSE acc

RECURSIVE DeleteEach(_, _, _)
DeleteEach(acc, files_to_delete, dry_run) ==
    IF files_to_delete = <<>> THEN acc
    ELSE DeleteEach(DeleteOne(acc, Head(files_to_delete), dry_run),
                    Tail(files_to_delete), dry_run)

\* the loop over duplicates.items()
RECURSIVE DeleteGroups(_, _, _, _)
DeleteGroups(acc, duplicates, keep_first, dry_run) ==
    IF duplicates = <<>> THEN acc
    ELSE DeleteGroups(
             DeleteEach(acc, FilesToDelete(Head(duplicates).paths, keep_first), dry_run),
             Tail(duplicates), keep_first, dry_run)

\* delete_duplicates(keep_first, dry_run)
DeleteDuplicates(keep_first, dry_run) ==
    \E r \in {DeleteGroups([fs |-> fs, files |-> files, deleted |-> <<>>],
                           find_duplicates(files), keep_first, dry_run)} :
       /\ fs' = r.fs
       /\ files' = r.files
       /\ last' = [NoCall EXCEPT !.op = "delete", !.keep_first = keep_first,
                                 !.dry_run = dry_run, !.outcome = "returned",
                                 !.result = r.deleted,
                                 !.repeat = /\ last.op = "delete"
                                            /\ ~last.dry_run]
       /\ UNCHANGED <<unreadable, envSteps>>

\* clear_database(), were unreadable_files emptied as well
ClearBothTables ==
    /\ files' = {}
    /\ unreadable' = EmptyBag
    /\ last' = [NoCall EXCEPT !.op = "clear", !.outcome = "returned"]
    /\ UNCHANGED <<fs, envSteps>>

\* clear_database(): DELETE FROM files
ClearDatabase ==
    /\ files' = {}
    /\ last' = [NoCall EXCEPT !.op = "clear", !.outcome = "returned"]
    /\ UNCHANGED <<fs, unreadable, envSteps>>

----------------------------------------------------------------------------
(* get_statistics and get_statistics_by_extension *)

\* SELECT COUNT(*)
CountAll(rows) == Cardinality(rows)

\* WHERE hash IN (SELECT hash FROM files GROUP BY hash HAVING COUNT(*) > 1)
WhereHashShared(tbl) == {r \in tbl : r.hash \in HavingCountAbove1(tbl)}

\* COUNT(hash), were DISTINCT left out
CountHash(rows) == Cardinality(rows)

\* SELECT COUNT(DISTINCT hash)
CountDistinctHash(rows) == Cardinality({r.hash : r \in rows})

\* SELECT SUM(size): NULL when there is no row
RECURSIVE SumSize(_)
SumSize(rows) ==
    IF rows = {} THEN 0
    ELSE LET r == CHOOSE x \in rows : TRUE
         IN r.size + SumSize(rows \ {r})
Sum(rows) ==
    IF rows = {} THEN [null |-> TRUE, value |-> 0]
    ELSE [null |-> FALSE, value |-> SumSize(rows)]

\* "x or 0": NULL and 0 become 0
OrZero(x) == IF x.null \/ x.value = 0 THEN 0 ELSE x.value

\* total_files - duplicate_groups, in the place of unique_files
MinusGroups(stats) == stats.total_files - stats.duplicate_groups

\* "unique_files": total_files - duplicate_files
UniqueFiles(stats) == stats.total_files - stats.duplicate_files

\* the dictionary get_statistics returns, given its four query results
Statistics(stats) ==
    [total_files |-> stats.total_files,
     duplicate_groups |-> stats.duplicate_groups,
     duplicate_files |-> stats.duplicate_files,
     unique_files |-> UniqueFiles(stats),
     total_size_bytes |-> stats.total_size]

\* get_statistics()
get_statistics(tbl) ==
    Statistics([total_files |-> CountAll(tbl),
                duplicate_groups |-> CountDistinctHash(WhereHashShared(tbl)),
                duplicate_files |-> CountAll(WhereHashShared(tbl)),
                total_size |-> OrZero(Sum(tbl))])

\* one row per extension, were the rows without extension left out
GroupByExtensionNamed(tbl) ==
    {[extension |-> e,
      count |-> CountAll({r \in tbl : r.extension = e}),
      total_size |-> Sum({r \in tbl : r.extension = e})]
        : e \in {r.extension : r \in tbl} \ {""}}

\* SELECT extension, COUNT(*), SUM(size) FROM files GROUP BY extension
GroupByExtension(tbl) ==
    {[extension |-> e,
      count |-> CountAll({r \in tbl : r.extension = e}),
      total_size |-> Sum({r \in tbl : r.extension = e})]
        : e \in {r.extension : r \in tbl}}

\* ORDER BY count DESC; rows of equal count in the order of their extension
RECURSIVE OrderByCountDesc(_)
OrderByCountDesc(rows) ==
    IF rows = {} THEN <<>>
    ELSE LET first == CHOOSE a \in rows : \A b \in rows \ {a} :
                          \/ a.count > b.count
                          \/ a.count = b.count /\ LexLess(a.extension, b.extension)
         IN <<first>> \o OrderByCountDesc(rows \ {first})

\* key = ext if ext else ""
KeyOf(ext) == IF ext = "" THEN "" ELSE ext

\* result[key] = {...}: an entry with the same key is replaced
SetItem(result, key, value) ==
    {e \in result : e.key # key} \cup {[key |-> key, value |-> value]}

\* the loop over cursor.fetchall()
RECURSIVE BuildResult(_, _)
BuildResult(rows, result) ==
    IF rows = <<>> THEN result
    ELSE BuildResult(Tail(rows),
             SetItem(result, KeyOf(Head(rows).extension),
                     [count |-> Head(rows).count,
                      total_size_bytes |-> OrZero(Head(rows).total_size)]))

\* get_statistics_by_extension(): the dictionary as a set of entries
get_statistics_by_extension(tbl) ==
    BuildResult(OrderByCountDesc(GroupByExtension(tbl)), {})

----------------------------------------------------------------------------
(* DuplicateGroup (spec sections 3, 4.4 and 4.5; its code is not in src/) *)

\* find_groups(): one group per entry of the grouping query, the size taken
\* from a member's record
MakeGroups(tbl, d) ==
    [i \in 1..Len(d) |->
        [hash_ |-> d[i].hash,
         file_size |-> (CHOOSE r \in tbl : r.path = d[i].paths[1]).size,
         file_paths |-> d[i].paths]]
find_groups(tbl) == MakeGroups(tbl, find_duplicates(tbl))

\* size(): the number of member paths
size(g) == Len(g.file_paths)

\* total_size(): size() * per_file_size
total_size(g) == size(g) * g.file_size

\* the bytes of all members, in the place of the bytes of all but one
wasted_space_all(g) == size(g) * g.file_size

\* wasted_space(): (size() - 1) * per_file_size
wasted_space(g) == (size(g) - 1) * g.file_size

\* the deletion candidates, were keep_path not looked at
GroupCandidatesAll(g, keep_path) == g.file_paths

\* the deletion candidates of a group: every member, or every member but
\* keep_path (keep_path is {} for None, {p} for path p)
GroupCandidates(g, keep_path) ==
    SelectSeq(g.file_paths, LAMBDA p : p \notin keep_path)

\* what delete_duplicates does with one candidate: in a dry run it is only
\* listed; else, if the path still exists and its removal does not fail, it
\* is removed, its record deleted and the path listed; else it is skipped
GroupDeleteOne(acc, path, dry_run) ==
    IF dry_run THEN [acc EXCEPT !.deleted = Append(acc.deleted, path)]
    ELSE IF exists(acc.fs, path) /\ CanRemove(acc.fs, path)
    THEN [fs |-> Removed(acc.fs, path),
          files |-> DeleteRow(acc.files, path),
          deleted |-> Append(acc.deleted, path)]
    ELSE acc

RECURSIVE GroupDeleteEach(_, _, _)
GroupDeleteEach(acc, candidates, dry_run) ==
    IF candidates = <<>> THEN acc
    ELSE GroupDeleteEach(GroupDeleteOne(acc, Head(candidates), dry_run),
                         Tail(candidates), dry_run)

\* DuplicateGroup.delete_duplicates(keep_path, dry_run); keep_path must be a
\* member of the group or None
GroupDeleteDuplicates(g, keep_path, dry_run) ==
    /\ keep_path \subseteq Range(g.file_paths)
    /\ \E r \in {GroupDeleteEach([fs |-> fs, files |-> files, deleted |-> <<>>],
                                 GroupCandidates(g, keep_path), dry_run)} :
       LET call == [NoCall EXCEPT !.op = "group_delete", !.group = g.hash_,
                                  !.keep_path = keep_path, !.dry_run = dry_run]
       IN
       /\ fs' = r.fs
       /\ files' = r.files
       /\ last' = [call EXCEPT !.outcome = "returned", !.result = r.deleted]
       /\ UNCHANGED <<unreadable, envSteps>>

\* g[i]: the member at position i, counted from 0
GetItem(g, i) == g.file_paths[i + 1]

\* the candidates, were keep_index counted from 1
AltCandidatesFromOne(g, keep_index) ==
    LET members == sorted(g.file_paths)
    IN [i \in 1..(Len(members) - 1) |->
           IF i < keep_index THEN members[i] ELSE members[i + 1]]

\* the candidates of delete_duplicates_alt: every member but the one at
\* position keep_index of the sorted member order
AltCandidates(g, keep_index) ==
    LET members == sorted(g.file_paths)
    IN [i \in 1..(Len(members) - 1) |->
           IF i < keep_index + 1 THEN members[i] ELSE members[i + 1]]

\* DuplicateGroup.delete_duplicates_alt(keep_index, dry_run); keep_index
\* must be the position of a member
GroupDeleteDuplicatesAlt(g, keep_index, dry_run) ==
    /\ keep_index \in 0..(Len(g.file_paths) - 1)
    /\ \E r \in {GroupDeleteEach([fs |-> fs, files |-> files, deleted |-> <<>>],
                                 AltCandidates(g, keep_index), dry_run)} :
       LET call == [NoCall EXCEPT !.op = "group_delete_alt", !.group = g.hash_,
                                  !.keep_index = keep_index, !.dry_run = dry_run]
       IN
       /\ fs' = r.fs
       /\ files' = r.files
       /\ last' = [call EXCEPT !.outcome = "returned", !.result = r.deleted]
       /\ UNCHANGED <<unreadable, envSteps>>

----------------------------------------------------------------------------
(* Other processes *)

EnvCall == [NoCall EXCEPT !.op = "env"]

\* a file is created or overwritten
WriteFile(p, c) ==
    /\ envSteps < MaxEnvSteps
    /\ fs[p].kind # "file" \/ fs[p].content # c
    /\ fs' = [fs EXCEPT ![p] = IF fs[p].kind = "file"
                                THEN [fs[p] EXCEPT !.content = c]
                                ELSE RegularFile(c)]
    /\ envSteps' = envSteps + 1
    /\ last' = EnvCall
    /\ UNCHANGED <<files, unreadable>>

\* a file or link is removed
RemoveFile(p) ==
    /\ envSteps < MaxEnvSteps
    /\ fs[p].kind # "absent"
    /\ fs' = [fs EXCEPT ![p] = Absent]
    /\ envSteps' = envSteps + 1
    /\ last' = EnvCall
    /\ UNCHANGED <<files, unreadable>>

\* read permission is taken from a file
DenyRead(p) ==
    /\ envSteps < MaxEnvSteps
    /\ fs[p].kind = "file" /\ fs[p].readable
    /\ fs' = [fs EXCEPT ![p].readable = FALSE]
    /\ envSteps' = envSteps + 1
    /\ last' = EnvCall
    /\ UNCHANGED <<files, unreadable>>

\* a file is made impossible to remove (its directory read-only, say)
DenyRemove(p) ==
    /\ envSteps < MaxEnvSteps
    /\ fs[p].kind = "file" /\ fs[p].removable
    /\ fs' = [fs EXCEPT ![p].removable = FALSE]
    /\ envSteps' = envSteps + 1
    /\ last' = EnvCall
    /\ UNCHANGED <<files, unreadable>>

\* /r/k is made a symbolic link to /r/b, or to itself
MakeLink(t) ==
    /\ envSteps < MaxEnvSteps
    /\ fs[LinkSlot] # SymLink(t)
    /\ fs' = [fs EXCEPT ![LinkSlot] = SymLink(t)]
    /\ envSteps' = envSteps + 1
    /\ last' = EnvCall
    /\ UNCHANGED <<files, unreadable>>

----------------------------------------------------------------------------
(* The specification *)

\* the filesystem the finder is first run on
InitialFiles ==
    [p \in Slots |->
        IF p \in {"/r/b", "/r/s/a"} THEN RegularFile("X")
        ELSE IF p \in {"/r/A.T", "/r/b.t"} THEN RegularFile("YY")
        ELSE Absent]

\* a new database
Init ==
    /\ fs = InitialFiles
    /\ files = {}
    /\ unreadable = EmptyBag
    /\ envSteps = 0
    /\ last = NoCall

\* the calls of the program
Calls(roots) ==
    \/ \E directory \in roots, recursive \in BOOLEAN :
           ScanDirectory(directory, recursive)
    \/ \E keep_first \in BOOLEAN, dry_run \in BOOLEAN :
           DeleteDuplicates(keep_first, dry_run)
    \/ ClearDatabase
    \/ \E g \in Range(find_groups(files)), dry_run \in BOOLEAN,
          keep_path \in {{}} \cup {{p} : p \in RegularSlots} :
           GroupDeleteDuplicates(g, keep_path, dry_run)
    \/ \E g \in Range(find_groups(files)), dry_run \in BOOLEAN,
          keep_index \in 0..(Cardinality(RegularSlots) - 1) :
           GroupDeleteDuplicatesAlt(g, keep_index, dry_run)

\* a filesystem of directories and regular files
Next ==
    \/ Calls(Dirs)
    \/ \E p \in Touched, c \in Contents : WriteFile(p, c)
    \/ \E p \in Touched : RemoveFile(p)
    \/ \E p \in Touched : DenyRead(p)
    \/ \E p \in Touched : DenyRemove(p)

Spec == Init /\ [][Next]_vars

\* a filesystem that also has symbolic links
NextLinks ==
    \/ Calls(Dirs \cup {DirLink, RelativeRoot})
    \/ \E p \in Slots : RemoveFile(p)
    \/ \E t \in {"/r/b", LinkSlot} : MakeLink(t)

SpecLinks == Init /\ [][NextLinks]_vars

----------------------------------------------------------------------------
(* What the claims speak of, stated over the tables and the filesystem *)

Paths(tbl) == {r.path : r \in tbl}
RowsOf(tbl, p) == {r \in tbl : r.path = p}
\* the paths whose record holds fingerprint h
Holders(tbl, h) == {r.path : r \in {x \in tbl : x.hash = h}}
\* the fingerprints held by 2 or more records
SharedHashes(tbl) ==
    {h \in {r.hash : r \in tbl} : Cardinality({r \in tbl : r.hash = h}) >= 2}
\* the least and the greatest path of a set
Smallest(S) == CHOOSE p \in S : \A q \in S : ~LexLess(q, p)
Largest(S) == CHOOSE p \in S : \A q \in S : ~LexLess(p, q)
Ascending(s) == \A i, j \in 1..Len(s) : i < j => LexLess(s[i], s[j])
NoRepeats(s) == \A i, j \in 1..Len(s) : i # j => s[i] # s[j]

----------------------------------------------------------------------------
(* C1 *)

\* C1: after any sequence of scans, deletions and clears the files table
\* holds at most one record per path
C1_OneRecordPerPath ==
    \A r1, r2 \in files : r1.path = r2.path => r1 = r2

\* a scan that followed at once on the same scan has stored every file
\* again, each onto the record it already had
C1_Witness ==
    /\ last.op = "scan" /\ last.repeat /\ last.outcome = "returned"
    /\ last.count = 4
    /\ Cardinality(files) = 4

----------------------------------------------------------------------------
(* C2 *)

C2_Exact(tbl, d) ==
    /\ {d[i].hash : i \in 1..Len(d)} = SharedHashes(tbl)
    /\ \A i, j \in 1..Len(d) : i # j => d[i].hash # d[j].hash
    /\ \A i \in 1..Len(d) :
          /\ Range(d[i].paths) = Holders(tbl, d[i].hash)
          /\ Len(d[i].paths) >= 2

\* C2: find_duplicates returns exactly the fingerprints held by 2 or more
\* records, each with all and only the paths whose record holds it, and no
\* group of fewer than 2 paths
C2_GroupsByFingerprint == C2_Exact(files, find_duplicates(files))

\* a store with a group whose members differ in extension, and a record that
\* is in no group
C2_Witness ==
    /\ \E r1, r2 \in files :
          r1.hash = r2.hash /\ r1.path # r2.path /\ r1.extension # r2.extension
    /\ \E r \in files : r.hash \notin SharedHashes(files)

----------------------------------------------------------------------------
(* C3 *)

C3_Ordered(d, groups) ==
    /\ \A i \in 1..Len(d) : Ascending(d[i].paths)
    /\ \A i, j \in 1..Len(d) : i < j => LexLess(d[i].hash, d[j].hash)
    /\ Len(groups) = Len(d)
    /\ \A i \in 1..Len(d) : groups[i] = d[i].paths

\* C3: in the result of find_duplicates and get_duplicate_groups the paths of
\* every group ascend, without a repeat, and the groups ascend by fingerprint
C3_SortedGroups == C3_Ordered(find_duplicates(files), get_duplicate_groups(files))

\* two groups, where the group that comes first by fingerprint does not hold
\* the least path
C3_Witness ==
    /\ Cardinality(SharedHashes(files)) = 2
    /\ \E h1, h2 \in SharedHashes(files) :
          /\ LexLess(h1, h2)
          /\ Smallest(Paths(files)) \in Holders(files, h2)

----------------------------------------------------------------------------
(* C4 *)

\* the path a deletion keeps of the group of fingerprint h
Survivor(tbl, h, keep_first) ==
    IF keep_first THEN Smallest(Holders(tbl, h)) ELSE Largest(Holders(tbl, h))
\* the deletion candidates of the top-level deletion
ExpectedCandidates(tbl, keep_first) ==
    UNION {Holders(tbl, h) \ {Survivor(tbl, h, keep_first)} : h \in SharedHashes(tbl)}
OnDisk(f) == {p \in DOMAIN f : f[p].kind # "absent"}

C4_DryRunStep ==
    /\ last'.op \in {"delete", "group_delete"}
    /\ last'.dry_run
    =>
    /\ last'.outcome = "returned"
    /\ NoRepeats(last'.result)
    /\ last'.op = "delete" =>
          Range(last'.result) = ExpectedCandidates(files, last'.keep_first)
    /\ last'.op = "group_delete" =>
          Range(last'.result) = Holders(files, last'.group) \ last'.keep_path
    /\ fs' = fs
    /\ OnDisk(fs) \subseteq OnDisk(fs')
    /\ files' = files
    /\ Cardinality(files') = Cardinality(files)

\* C4: a deletion with dry_run=True, of the finder or of a group, returns
\* the candidate paths and leaves the filesystem and the files table as they
\* were: every file that existed still exists, and the records and their
\* number are the same
C4_DryRunChangesNothing == [][C4_DryRunStep]_vars

\* a dry run of the finder has returned 2 candidates; their files exist and
\* their records are in the table
C4_Witness ==
    /\ last.op = "delete" /\ last.dry_run
    /\ Len(last.result) = 2
    /\ \A p \in Range(last.result) : exists(fs, p) /\ p \in Paths(files)

----------------------------------------------------------------------------
(* C5 *)

Removable(f, S) == {p \in S : exists(f, p) /\ CanRemove(f, p)}

C5_RealDeleteStep ==
    /\ last'.op = "delete"
    /\ ~last'.dry_run
    =>
    LET candidates == ExpectedCandidates(files, last'.keep_first)
        returned == Range(last'.result)
    IN
    /\ last'.outcome = "returned"
    /\ NoRepeats(last'.result)
    /\ returned = Removable(fs, candidates)
    /\ \A p \in returned : ~exists(fs', p) /\ p \notin Paths(files')
    /\ \A p \in candidates \ returned :
          /\ fs'[p] = fs[p]
          /\ RowsOf(files', p) = RowsOf(files, p)

\* C5: delete_duplicates with dry_run=False returns exactly the candidates
\* whose file this call removed; a returned path has no file and no record
\* afterwards; a candidate whose file is gone or cannot be removed is skipped
\* without an exception, is not returned, and the other candidates are still
\* processed
C5_ReturnsWhatWasRemoved == [][C5_RealDeleteStep]_vars

\* a deletion has removed a file while the candidate of the other group,
\* whose file could not be removed or was gone, was skipped and is still
\* recorded
C5_Witness ==
    /\ last.op = "delete" /\ ~last.dry_run /\ last.keep_first
    /\ Len(last.result) = 1
    /\ \E r \in files :
          /\ r.path # Smallest(Holders(files, r.hash))
          /\ ~(exists(fs, r.path) /\ CanRemove(fs, r.path))

----------------------------------------------------------------------------
(* C6 *)

C6_SurvivorStep ==
    last'.op = "delete"
    =>
    /\ \E candidates \in {ExpectedCandidates(files, last'.keep_first)} :
          /\ last'.dry_run => Range(last'.result) = candidates
          /\ Range(last'.result) \subseteq candidates
    /\ \A h \in SharedHashes(files) :
          LET members == Holders(files, h)
              survivor == Survivor(files, h, last'.keep_first)
          IN /\ survivor \in members
             /\ \A m \in members :
                   IF last'.keep_first THEN ~LexLess(m, survivor)
                   ELSE ~LexLess(survivor, m)
             /\ survivor \notin Range(last'.result)
             /\ fs'[survivor] = fs[survivor]
             /\ RowsOf(files', survivor) = RowsOf(files, survivor)

\* C6: delete_duplicates takes as candidates, in every group, all members
\* but one survivor, the smallest path of the group if keep_first and the
\* largest if not; the survivor is never returned and never removed
C6_KeepsSmallestOrLargest == [][C6_SurvivorStep]_vars

\* a deletion that keeps the last has removed /r/A.T and /r/b and kept the
\* largest paths /r/b.t and /r/s/a
C6_Witness ==
    /\ last.op = "delete" /\ ~last.keep_first /\ ~last.dry_run
    /\ Range(last.result) = {"/r/A.T", "/r/b"}
    /\ exists(fs, "/r/b.t") /\ exists(fs, "/r/s/a")
    /\ {"/r/b.t", "/r/s/a"} \subseteq Paths(files)

----------------------------------------------------------------------------
(* C7 *)

C7_GroupDeleteStep ==
    LET members == Holders(files, last'.group)
    IN
    /\ last'.op = "group_delete"
    /\ ~last'.dry_run
    /\ last'.keep_path \subseteq members
    /\ \A m \in members : exists(fs, m) /\ CanRemove(fs, m)
    =>
    /\ \A m \in members : exists(fs', m) <=> m \in last'.keep_path
    /\ Range(last'.result) = members \ last'.keep_path
    /\ NoRepeats(last'.result)

\* C7: a group's delete_duplicates(keep_path=p, dry_run=False), p a member
\* and all members present and removable, leaves of the members exactly p
\* on disk and returns every other member; with keep_path=None every member
\* is removed
C7_GroupKeepsOnlyKeepPath == [][C7_GroupDeleteStep]_vars

\* with no file touched since the scan, the group of /r/b and /r/s/a was
\* deleted keeping /r/s/a
C7_Witness ==
    /\ envSteps = 0
    /\ last.op = "group_delete" /\ ~last.dry_run
    /\ last.keep_path = {"/r/s/a"}
    /\ last.result = <<"/r/b">>
    /\ exists(fs, "/r/s/a") /\ ~exists(fs, "/r/b")

----------------------------------------------------------------------------
(* C8 *)

\* the entries of the filesystem a scan of directory has to visit: those
\* below it, or those directly in it that are files
Below(f, directory, recursive) ==
    {p \in DOMAIN f :
        /\ f[p].kind # "absent"
        /\ IF recursive THEN IsPrefix(Canonical(directory) \o "/", p)
           ELSE Parent(p) = Canonical(directory) /\ is_file(f, p)}
\* those that cannot be read, and those that can
Failing(f, S) == {p \in S : OpenError(f, p) # ""}
Readable(f, S) == {p \in S : OpenError(f, p) = ""}
\* p has a record with the fingerprint and the size of its content
Recorded(f, tbl, p) ==
    \E r \in tbl : /\ r.path = p
                   /\ r.hash = sha256(f[p].content)
                   /\ r.size = Len(f[p].content)

C8_ScanStep ==
    last'.op = "scan"
    =>
    LET visited == Below(fs, last'.directory, last'.recursive)
        failing == Failing(fs, visited)
        logged == unreadable' (-) unreadable
    IN
    /\ last'.outcome = "returned"
    /\ unreadable \sqsubseteq unreadable'
    /\ BagCardinality(logged) = Cardinality(failing)
    /\ \A p \in failing :
          /\ \E row \in BagToSet(logged) : row.error_type = OpenError(fs, p)
          /\ RowsOf(files', p) = RowsOf(files, p)
    /\ \A p \in Readable(fs, visited) :
          \E r \in files' : r.hash = sha256(Followed(fs, p).content)
                            /\ r.path \in {p, fs[p].target}
    /\ last'.count = Cardinality(Readable(fs, visited))

\* C8: in scan_directory a file whose hashing, size read or path resolution
\* fails with an OS or permission error does not abort the scan: one row is
\* appended to unreadable_files for it, no record is written for it, every
\* readable candidate is still upserted, and the count returned is the
\* number of candidates upserted
C8_FailureDoesNotAbortScan == [][C8_ScanStep]_vars

----------------------------------------------------------------------------
(* C9 *)

C9_ScanStep ==
    /\ last'.op = "scan"
    /\ last'.outcome = "returned"
    =>
    LET visited == Below(fs, last'.directory, last'.recursive)
        stored == Readable(fs, visited)
    IN
    /\ \A p \in stored : Recorded(fs, files', p)
    /\ Paths(files') = Paths(files) \cup stored
    /\ \A p \in Paths(files') \ stored : RowsOf(files', p) = RowsOf(files, p)
    /\ last'.count = Cardinality(stored)

\* C9: scan_directory(root, recursive=True) upserts every regular file at
\* every depth under root; with recursive=False it upserts only the regular
\* files directly in root and writes no record for a file in a
\* subdirectory; the count returned is the number of files so processed
C9_DepthOfScan == [][C9_ScanStep]_vars

\* a scan of /r that is not recursive has stored its 3 files, and /r/s/a,
\* on disk in the subdirectory, has no record
C9_Witness ==
    /\ last.op = "scan" /\ last.outcome = "returned"
    /\ last.directory = "/r" /\ ~last.recursive
    /\ last.count = 3
    /\ Paths(files) = {"/r/A.T", "/r/b", "/r/b.t"}
    /\ exists(fs, "/r/s/a")

----------------------------------------------------------------------------
(* C10 *)

\* what idempotence is about: of every record the path, the fingerprint and
\* the size
Fingerprints(tbl) == {[path |-> r.path, hash |-> r.hash, size |-> r.size] : r \in tbl}

C10_RescanStep ==
    /\ last.op = "scan" /\ last.outcome = "returned"
    /\ last'.op = "scan" /\ last'.outcome = "returned"
    /\ last'.directory = last.directory
    /\ last'.recursive = last.recursive
    =>
    /\ Cardinality(files') = Cardinality(files)
    /\ Paths(files') = Paths(files)
    /\ Fingerprints(files') = Fingerprints(files)
    /\ last'.count = last.count

\* C10: a second scan_directory of the same root with the same recursive
\* flag, the filesystem not changed in between, leaves total_files, the set
\* of recorded paths and every path's fingerprint and size as they were
\* after the first scan, and both scans return the same count
C10_RescanIdempotent == [][C10_RescanStep]_vars

\* /r was scanned twice in a row, not recursively, after one of its files
\* had become unreadable: both scans counted 2 files
C10_Witness ==
    /\ last.op = "scan" /\ last.repeat /\ last.outcome = "returned"
    /\ last.directory = "/r" /\ ~last.recursive
    /\ last.count = 2
    /\ Cardinality(files) = 2
    /\ BagCardinality(unreadable) = 2

----------------------------------------------------------------------------
(* C11 *)

C11_Holds(stats) ==
    /\ stats.unique_files + stats.duplicate_files = stats.total_files
    /\ stats.total_files >= 0
    /\ stats.duplicate_files >= 0
    /\ stats.unique_files >= 0

\* C11: in every store reachable by scans, deletions and clears,
\* get_statistics returns unique_files + duplicate_files = total_files, and
\* none of the three counts is negative
C11_StatisticsAddUp == C11_Holds(get_statistics(files))

\* after a deletion the store holds files in a group and files in none
C11_Witness ==
    /\ last.op \in {"delete", "group_delete"} /\ ~last.dry_run
    /\ get_statistics(files).unique_files >= 1
    /\ get_statistics(files).duplicate_files >= 2

----------------------------------------------------------------------------
(* C12 *)

RECURSIVE SumLen(_)
SumLen(d) == IF d = <<>> THEN 0 ELSE Len(Head(d).paths) + SumLen(Tail(d))
\* the sizes of the records added up path by path
RECURSIVE SumByPath(_, _)
SumByPath(tbl, paths) ==
    IF paths = <<>> THEN 0
    ELSE (CHOOSE r \in tbl : r.path = Head(paths)).size + SumByPath(tbl, Tail(paths))

C12_Holds(tbl, stats, d) ==
    /\ stats.total_files = Cardinality(tbl)
    /\ stats.duplicate_groups = Cardinality(SharedHashes(tbl))
    /\ stats.duplicate_groups = Len(d)
    /\ stats.duplicate_files =
          Cardinality({p \in Paths(tbl) : \E h \in SharedHashes(tbl) : p \in Holders(tbl, h)})
    /\ stats.duplicate_files = SumLen(d)
    /\ stats.total_size_bytes = SumByPath(tbl, SortedSeq(Paths(tbl)))
    /\ tbl = {} => stats.total_size_bytes = 0

\* C12: get_statistics reports total_files = the number of records,
\* duplicate_groups = the number of fingerprints held by 2 or more records
\* (the number of groups of find_duplicates), duplicate_files = the number
\* of records with such a fingerprint (the number of paths find_duplicates
\* returns), total_size_bytes = the sum of the sizes, 0 for an empty store
C12_StatisticsValues == C12_Holds(files, get_statistics(files), find_duplicates(files))

\* a store of 4 records in 2 groups, of 6 bytes in all
C12_Witness ==
    /\ get_statistics(files).total_files = 4
    /\ get_statistics(files).duplicate_groups = 2
    /\ get_statistics(files).duplicate_files = 4
    /\ get_statistics(files).total_size_bytes = 6

----------------------------------------------------------------------------
(* C13 *)

RECURSIVE SumCounts(_)
SumCounts(result) ==
    IF result = {} THEN 0
    ELSE LET e == CHOOSE x \in result : TRUE
         IN e.value.count + SumCounts(result \ {e})
RECURSIVE SumBytes(_)
SumBytes(result) ==
    IF result = {} THEN 0
    ELSE LET e == CHOOSE x \in result : TRUE
         IN e.value.total_size_bytes + SumBytes(result \ {e})
HasUpperCase(s) ==
    \E i \in 1..Len(s) : \E pair \in LowerOf : pair[1] = CharAt(s, i)

C13_Holds(tbl, result, stats) ==
    /\ \A e1, e2 \in result : e1.key = e2.key => e1 = e2
    /\ {e.key : e \in result} = {Lower(Suffix(r.path)) : r \in tbl}
    /\ \A e \in result :
          /\ ~HasUpperCase(e.key)
          /\ e.value.count = Cardinality({r \in tbl : Lower(Suffix(r.path)) = e.key})
          /\ e.value.count >= 1
    /\ SumCounts(result) = stats.total_files
    /\ SumBytes(result) = stats.total_size_bytes
    /\ (\E r \in tbl : Suffix(r.path) = "") => \E e \in result : e.key = ""

\* C13: get_statistics_by_extension partitions the records by lower-cased
\* extension: the counts add up to total_files, the sizes to
\* total_size_bytes of get_statistics, and the files without extension are
\* counted under the key "" and not left out
C13_ExtensionsPartition ==
    C13_Holds(files, get_statistics_by_extension(files), get_statistics(files))

\* /r/A.T and /r/b.t are counted under ".t", /r/b and /r/s/a under ""
C13_Witness ==
    /\ Paths(files) = {"/r/A.T", "/r/b", "/r/b.t", "/r/s/a"}
    /\ \E e \in get_statistics_by_extension(files) : e.key = ".t" /\ e.value.count = 2
    /\ \E e \in get_statistics_by_extension(files) : e.key = "" /\ e.value.count = 2

----------------------------------------------------------------------------
(* C14 *)

C14_ClearStep ==
    last'.op = "clear"
    =>
    /\ last'.outcome = "returned"
    /\ files' = {}
    /\ get_statistics(files').total_files = 0
    /\ find_duplicates(files') = <<>>
    /\ unreadable' = unreadable
    /\ fs' = fs

\* C14: clear_database removes every record, so that total_files is 0 and
\* find_duplicates returns no group, and leaves unreadable_files and the
\* filesystem as they were
C14_ClearRemovesOnlyRecords == [][C14_ClearStep]_vars

\* after a clear the table is empty, the row of the unreadable file is
\* still there and so are the files on disk
C14_Witness ==
    /\ last.op = "clear"
    /\ files = {}
    /\ BagCardinality(unreadable) >= 1
    /\ Cardinality(OnDisk(fs)) = 4

----------------------------------------------------------------------------
(* C15 *)

\* the row a failed read of p is logged as: the resolved path and the name
\* of the exception
LoggedRow(f, p) ==
    [path |-> IF f[p].kind = "link" THEN f[p].target ELSE p,
     error_type |-> OpenError(f, p)]

C15_AppendStep ==
    /\ unreadable \sqsubseteq unreadable'
    /\ last'.op # "scan" => unreadable' = unreadable
    /\ last'.op = "scan" =>
          LET failing == Failing(fs, Below(fs, last'.directory, last'.recursive))
          IN /\ BagCardinality(unreadable') =
                    BagCardinality(unreadable) + Cardinality(failing)
             /\ \A p \in failing :
                    CopiesIn(LoggedRow(fs, p), unreadable') =
                        CopiesIn(LoggedRow(fs, p), unreadable) + 1

\* C15: unreadable_files is append-only: each failed read of a scan adds one
\* row, a later failure of the same path adds another row and does not
\* replace the earlier one, and no scan, deletion or clear removes or
\* changes a row
C15_UnreadableAppendOnly == [][C15_AppendStep]_vars

----------------------------------------------------------------------------
(* C16 *)

C16_Holds(tbl, g) ==
    LET members == {r \in tbl : r.hash = g.hash_}
    IN /\ size(g) = Cardinality(members)
       /\ size(g) >= 2
       /\ \A r \in members : r.size = g.file_size
       /\ total_size(g) = Cardinality(members) * g.file_size
       /\ total_size(g) = SumSize(members)
       /\ wasted_space(g) = (Cardinality(members) - 1) * g.file_size
       /\ wasted_space(g) = total_size(g) - g.file_size

\* C16: for every group that is constructed, total_size() is size() times
\* the per-file size and wasted_space() is (size() - 1) times the per-file
\* size, size() being the number of member paths
C16_GroupSizes == \A g \in Range(find_groups(files)) : C16_Holds(files, g)

\* a group of 3 files of 1 byte: 3 bytes in all, 2 of them wasted
C16_Witness ==
    \E g \in Range(find_groups(files)) :
        size(g) = 3 /\ g.file_size = 1 /\ total_size(g) = 3 /\ wasted_space(g) = 2

----------------------------------------------------------------------------
(* C17 *)

Bytes(f, p) == Followed(f, p).content

\* the fingerprints computed before a step and after it, of any two files
\* that can be read, are equal exactly if the bytes are equal
C17_HashStep ==
    \E before \in {{[bytes |-> Bytes(fs, p), digest |-> calculate_file_hash(fs, p)] :
                        p \in Readable(fs, OnDisk(fs))}},
       after \in {{[bytes |-> Bytes(fs', q), digest |-> calculate_file_hash(fs', q)] :
                       q \in Readable(fs', OnDisk(fs'))}} :
        \A x \in before, y \in after :
            /\ x.digest.ok
            /\ y.digest.ok
            /\ x.bytes = y.bytes <=> x.digest.hash = y.digest.hash

----------------------------------------------------------------------------
(* C18 *)

\* the group of fingerprint h, as find_groups builds it
GroupOf(tbl, h) == CHOOSE g \in Range(find_groups(tbl)) : g.hash_ = h

C18_AltStep ==
    last'.op = "group_delete_alt"
    =>
    \E g \in {GroupOf(files, last'.group)} :
      \E r \in {GroupDeleteEach([fs |-> fs, files |-> files, deleted |-> <<>>],
                                GroupCandidates(g, {GetItem(g, last'.keep_index)}),
                                last'.dry_run)} :
        /\ last'.outcome = "returned"
        /\ last'.result = r.deleted
        /\ fs' = r.fs
        /\ files' = r.files
        /\ unreadable' = unreadable
        /\ GetItem(g, last'.keep_index) = sorted(g.file_paths)[last'.keep_index + 1]
        /\ Range(last'.result) \subseteq
              Range(g.file_paths) \ {GetItem(g, last'.keep_index)}
        /\ last'.dry_run =>
              Range(last'.result) = Range(g.file_paths) \ {GetItem(g, last'.keep_index)}

\* C18: for every group g, every valid index i and both values of dry_run,
\* delete_duplicates_alt(i, dry_run) returns what
\* delete_duplicates(keep_path=g[i], dry_run) returns and changes the
\* filesystem and the store as it does: the survivor is the member at
\* position i of the sorted members and all others are candidates
C18_AltIsDeleteByPath == [][C18_AltStep]_vars

\* with no file touched since the scan, the group of /r/b and /r/s/a was
\* deleted keeping position 1, which is /r/s/a
C18_Witness ==
    /\ envSteps = 0
    /\ last.op = "group_delete_alt" /\ ~last.dry_run
    /\ last.keep_index = 1
    /\ last.result = <<"/r/b">>
    /\ exists(fs, "/r/s/a") /\ ~exists(fs, "/r/b")

----------------------------------------------------------------------------
(* C19 *)

\* the paths find_duplicates lists under fingerprint h
GroupedUnder(d, h) == UNION {Range(d[i].paths) : i \in {j \in 1..Len(d) : d[j].hash = h}}

\* the files a scan reads whose record holds the fingerprint of other bytes
\* than they hold now
Changed(f, tbl, directory, recursive) ==
    {p \in Readable(f, Below(f, directory, recursive)) :
        \E r \in tbl : r.path = p /\ r.hash # sha256(Bytes(f, p))}

C19_RescanStep ==
    /\ last'.op = "scan"
    /\ last'.outcome = "returned"
    =>
    \E d \in {find_duplicates(files')} :
      \A p \in Changed(fs, files, last'.directory, last'.recursive) :
        LET old == CHOOSE r \in files : r.path = p
            new == sha256(Bytes(fs, p))
        IN /\ RowsOf(files', p) # {}
           /\ \A r \in RowsOf(files', p) :
                 r.hash = new /\ r.size = Len(Bytes(fs, p))
           /\ Cardinality(RowsOf(files', p)) = 1
           /\ p \notin GroupedUnder(d, old.hash)
           /\ p \in GroupedUnder(d, new)
                 <=> \E r \in files' : r.path # p /\ r.hash = new

\* C19: if the content of a file changes between two scans of its root,
\* then after the second scan its single record holds the fingerprint and
\* the size of the new content, it is not in the group of its old
\* fingerprint, and it is in a group of the new fingerprint if and only if
\* another record holds that fingerprint
C19_RescanCorrects == [][C19_RescanStep]_vars

\* /r/b, first recorded with its 1 byte, was overwritten and scanned again:
\* its record holds the new fingerprint and 2 bytes, the one group is that
\* of the new fingerprint, and /r/s/a is left alone with the old one
C19_Witness ==
    /\ last.op = "scan" /\ last.outcome = "returned"
    /\ envSteps >= 1
    /\ Bytes(fs, "/r/b") = "YY"
    /\ \E r \in files : r.path = "/r/b" /\ r.hash = sha256("YY") /\ r.size = 2
    /\ \E r \in files : r.path = "/r/s/a" /\ r.hash = sha256("X")
    /\ Len(find_duplicates(files)) = 1
    /\ "/r/b" \in GroupedUnder(find_duplicates(files), sha256("YY"))

----------------------------------------------------------------------------
(* C20 *)

\* the file a path leads to, whatever its spelling
Physical(f, p) ==
    IF Entry(f, p).kind = "link" THEN Entry(f, p).target ELSE Canonical(p)

C20_Holds(f, tbl, d) ==
    /\ \A r \in tbl : r.path \in RegularSlots
    /\ \A r1, r2 \in tbl :
          Physical(f, r1.path) = Physical(f, r2.path) => r1 = r2
    /\ \A i \in 1..Len(d) : \A a, b \in 1..Len(d[i].paths) :
          a # b => Physical(f, d[i].paths[a]) # Physical(f, d[i].paths[b])
    /\ \A i \in 1..Len(d), keep_first \in BOOLEAN :
          \A c \in Range(FilesToDelete(d[i].paths, keep_first)) :
             \A kept \in Range(d[i].paths) \ Range(FilesToDelete(d[i].paths, keep_first)) :
                Physical(f, c) # Physical(f, kept)

\* C20: records are keyed by the canonical absolute path: a file reached
\* through several spellings (a relative root, a symbolic link to the file
\* or to its directory) has one record, so it is never grouped with itself
\* and never a deletion candidate against itself
C20_OneRecordPerFile == C20_Holds(fs, files, find_duplicates(files))

\* /r, spelled r, was scanned with the link /r/k to /r/b in it: 5 names
\* were stored, in 4 records
C20_Witness ==
    /\ last.op = "scan" /\ last.outcome = "returned"
    /\ last.directory = RelativeRoot /\ last.recursive
    /\ fs[LinkSlot] = SymLink("/r/b")
    /\ last.count = 5
    /\ Cardinality(files) = 4

----------------------------------------------------------------------------
(* C21 *)

\* the members of the group of fingerprint h whose file is on disk
CopiesOnDisk(f, tbl, h) == {m \in Holders(tbl, h) : exists(f, m)}

C21_LastCopyStep ==
    /\ last'.op = "delete"
    /\ ~last'.dry_run
    =>
    \A h \in SharedHashes(files) :
        CopiesOnDisk(fs, files, h) # {} => CopiesOnDisk(fs', files, h) # {}

\* C21: delete_duplicates(dry_run=False) never removes the last copy on
\* disk of a group: also when files were removed or changed by others
\* after the scan, a group with a member file on disk before the call has
\* a member file on disk after it
C21_KeepsLastCopy == [][C21_LastCopyStep]_vars

----------------------------------------------------------------------------
(* C22 *)

C22_FrameStep ==
    last'.op = "scan"
    =>
    LET visited == Below(fs, last'.directory, last'.recursive) IN
    /\ fs' = fs
    /\ Paths(files) \subseteq Paths(files')
    /\ \A r \in files : r.path \notin visited => r \in files'
    /\ \A r \in files' \ files : r.path \in visited

\* C22: scan_directory only inserts or replaces records of the paths it
\* visits: a record whose path was not visited (outside the root, in a
\* subdirectory during a scan that is not recursive, or of a file that has
\* since disappeared from disk) is left as it was, so the set of recorded
\* paths never shrinks under a scan, and a scan never modifies the
\* filesystem
C22_ScanTouchesOnlyVisited == [][C22_FrameStep]_vars

\* a scan of /r that is not recursive has returned while the store holds
\* the record of /r/s/a, in the subdirectory, and the record of /r/b, whose
\* file is no more on disk
C22_Witness ==
    /\ last.op = "scan" /\ last.outcome = "returned"
    /\ last.directory = "/r" /\ ~last.recursive
    /\ last.count = 2
    /\ "/r/s/a" \in Paths(files)
    /\ "/r/b" \in Paths(files) /\ ~exists(fs, "/r/b")

----------------------------------------------------------------------------
(* C23 *)

\* a deletion with dry_run=False whose candidates all exist and can be
\* removed leaves no fingerprint to more than one record
C23_CleanDeleteStep ==
    /\ last'.op = "delete"
    /\ ~last'.dry_run
    /\ \E candidates \in {ExpectedCandidates(files, last'.keep_first)} :
          Removable(fs, candidates) = candidates
    =>
    /\ \A h \in {r.hash : r \in files'} : Cardinality(Holders(files', h)) <= 1
    /\ find_duplicates(files') = <<>>
    /\ get_duplicate_groups(files') = <<>>
    /\ get_statistics(files').duplicate_groups = 0
    /\ get_statistics(files').duplicate_files = 0

\* the deletion that follows at once on it returns an empty list and
\* changes nothing
C23_FollowingDeleteStep ==
    /\ last'.op = "delete"
    /\ last'.repeat
    /\ SharedHashes(files) = {}
    =>
    /\ last'.outcome = "returned"
    /\ last'.result = <<>>
    /\ fs' = fs
    /\ files' = files
    /\ unreadable' = unreadable

\* C23: after a delete_duplicates(dry_run=False) call in which every
\* candidate file exists and is removable, every fingerprint is held by at
\* most one record: find_duplicates returns no group, get_statistics reports
\* duplicate_groups = 0 and duplicate_files = 0, and a delete_duplicates call
\* that follows at once, with either keep policy and either dry_run value,
\* returns an empty list and changes nothing
C23_DeleteLeavesNoDuplicates ==
    [][C23_CleanDeleteStep /\ C23_FollowingDeleteStep]_vars

\* after a scan of all 4 files, untouched by others, a deletion has removed
\* the 2 candidates and the deletion that followed at once, here one with
\* dry_run=False that keeps the last path, has returned an empty list
C23_Witness ==
    /\ last.op = "delete" /\ last.repeat
    /\ ~last.dry_run /\ ~last.keep_first
    /\ last.result = <<>>
    /\ envSteps = 0
    /\ Cardinality(files) = 2
    /\ Cardinality(OnDisk(fs)) = 2
    /\ get_statistics(files).duplicate_groups = 0

====
